---------------------------- MODULE Spec2Model ----------------------------
(***************************************************************************)
(* State-machine model of charging_stations.connectors._merger.Merger:     *)
(* loading of processed station files, preparation of the working          *)
(* GeoDataFrame, and the duplicate-resolution loop of Merger.merge.        *)
(*                                                                         *)
(* Conventions                                                             *)
(*  - A Python None is the model value None; an optional object (a frame,  *)
(*    the KNN weights) is a record with an is_none flag.                   *)
(*  - Strings that are compared by difflib.SequenceMatcher are sequences   *)
(*    of one-character strings.                                            *)
(*  - Stations lie on one meridian; a coordinate is the arc length in      *)
(*    metres north of a reference point, so the haversine distance of two  *)
(*    stations is the absolute difference of their coordinates.            *)
(*  - Scores, weights and the score threshold are exact rationals scaled   *)
(*    by 100 (0.49 is 49); comparisons are cross-multiplied.               *)
(*  - The rows of stations_gdf are kept in frame order (the order produced *)
(*    by sample(frac=1.0)); a row's index label (Series.name) is           *)
(*    identified with its position in that order.                          *)
(***************************************************************************)
EXTENDS Integers, Sequences, FiniteSets, TLC

VARIABLES
    pc,                    \* position inside Merger.merge / Merger._load_data
    error,                 \* exception that left the call, "none" if none
    log,                   \* messages merge has written with log.error
    data_sources,          \* self.data_sources: list of station dicts
    stations_gdf,          \* self.stations_gdf
    knn3,                  \* self.knn3
    merged_stations_gdf,   \* self.merged_stations_gdf
    params,                \* score_threshold, max_distance, score_weights of the call
    files_read,            \* local of _load_data: directory entries gone through
    idx,                   \* loop variable of the merge loop (1-based)
    current_station,       \* local of merge: the row taken with iloc[idx]
    duplicate_candidates,  \* local of merge: result of _get_duplicate_candidates
    duplicates,            \* local of merge: result of _determine_duplicates
    connector,             \* the connector object, its __data_source__
    raw_data,              \* connector.raw_data
    processed_data         \* connector.processed_data

vars == <<pc, error, log, data_sources, stations_gdf, knn3, merged_stations_gdf,
          params, files_read, idx, current_station, duplicate_candidates,
          duplicates, connector, raw_data, processed_data>>

connector_state == <<connector, raw_data, processed_data>>

---------------------------------------------------------------------------
(* Bounds of the model *)

MaxStations == 3        \* longest stations_list passed to merge
MaxFiles == 2           \* most directory entries one _load_data goes through
MaxLoaded == 2          \* most records _load_data accumulates in data_sources

(* Program constants *)

KNN_K == 40                   \* k of libpysal.weights.KNN.from_dataframe
DefaultMaxDistance == 100     \* max_distance: int = 100
DefaultScoreThreshold == 49   \* score_threshold: float = 0.49
DefaultOperatorWeight == 20   \* operator=0.2
DefaultAddressWeight == 10    \* address=0.1
DefaultDistanceWeight == 70   \* distance=0.7

\* Python None where a string or a list of strings is expected
None == <<"<None>">>

\* get_wkt(x) is None: the coordinates string does not parse
BadWkt == -1

DataSourceNames == <<"BNA", "OCM", "OSM">>

DataSourceSet == {DataSourceNames[i] : i \in DOMAIN DataSourceNames}

---------------------------------------------------------------------------
(* Strings and difflib.SequenceMatcher *)

NoneText == <<"N", "o", "n", "e">>

\* f"{x}" for a value that is a string or None
Format(x) == IF x = None THEN NoneText ELSE x

Slice(s, from, to) == [i \in 1..(to - from + 1) |-> s[from + i - 1]]

\* SequenceMatcher.find_longest_match: the longest common block, of those
\* the one starting earliest in a, of those the one starting earliest in b.
FindLongestMatch(a, b) ==
    LET Blocks == {m \in (1..Len(a)) \X (1..Len(b)) \X (1..Len(a)) :
                      /\ m[1] + m[3] - 1 <= Len(a)
                      /\ m[2] + m[3] - 1 <= Len(b)
                      /\ \A d \in 0..(m[3] - 1) : a[m[1] + d] = b[m[2] + d]}
    IN  IF Blocks = {} THEN <<1, 1, 0>>
        ELSE CHOOSE m \in Blocks :
                \A o \in Blocks :
                    \/ m[3] > o[3]
                    \/ m[3] = o[3] /\ m[1] < o[1]
                    \/ m[3] = o[3] /\ m[1] = o[1] /\ m[2] <= o[2]

RECURSIVE MatchingSize(_, _)
\* sum of the sizes of SequenceMatcher.get_matching_blocks
MatchingSize(a, b) ==
    IF Len(a) = 0 \/ Len(b) = 0 THEN 0
    ELSE LET m == FindLongestMatch(a, b)
         IN  IF m[3] = 0 THEN 0
             ELSE m[3]
                  + MatchingSize(Slice(a, 1, m[1] - 1), Slice(b, 1, m[2] - 1))
                  + MatchingSize(Slice(a, m[1] + m[3], Len(a)),
                                 Slice(b, m[2] + m[3], Len(b)))

\* SequenceMatcher(None, a, b).ratio() = 2.0 * M / T, 1.0 when T = 0
Ratio(a, b) ==
    IF Len(a) + Len(b) = 0 THEN [num |-> 1, den |-> 1]
    ELSE [num |-> 2 * MatchingSize(a, b), den |-> Len(a) + Len(b)]

ZeroRatio == [num |-> 0, den |-> 1]

---------------------------------------------------------------------------
(* Optional objects *)

NoneObject == [is_none |-> TRUE]

Frame(rows) == [is_none |-> FALSE, rows |-> rows]

---------------------------------------------------------------------------
(* Station records *)

OperatorA == <<"a">>
OperatorB == <<"b">>

Operators == <<OperatorA, OperatorB>>

\* coordinates (metres along the meridian) the stations are drawn from
Positions == <<0, 50, 100>>

SocketTypes == <<"Type2">>

Station(id, data_source, coordinates, operator, socket_type_list) ==
    [id |-> id,
     data_source |-> data_source,
     operator |-> operator,
     street |-> None,
     postcode |-> None,
     town |-> None,
     socket_type_list |-> socket_type_list,
     coordinates |-> coordinates]

\* records with operator, socket types and parseable coordinates
NumComplete == Len(DataSourceNames) * Len(Positions) * Len(Operators)

CompleteStation(id, c) ==
    Station(id,
            DataSourceNames[1 + (c \div (Len(Positions) * Len(Operators)))],
            Positions[1 + ((c \div Len(Operators)) % Len(Positions))],
            Operators[1 + (c % Len(Operators))],
            SocketTypes)

\* records a connector can emit that _prepare_geodataframe filters out:
\* no operator, no socket types, coordinates that do not parse
IncompleteStation(id, c) ==
    CASE c = 0 -> Station(id, "OCM", Positions[1], None, SocketTypes)
      [] c = 1 -> Station(id, "OSM", Positions[1], OperatorA, None)
      [] OTHER -> Station(id, "BNA", BadWkt, OperatorA, SocketTypes)

NumIncomplete == Len(<<"operator", "socket_type_list", "coordinates">>)

\* the catalogue of station records; a record's identifier (the sha256 of
\* its stable raw fields) is its number in the catalogue
Catalogue ==
    [c \in 1..(NumComplete + NumIncomplete) |->
        IF c <= NumComplete THEN CompleteStation(c, c - 1)
        ELSE IncompleteStation(c, c - 1 - NumComplete)]

\* station lists up to n records, as catalogue indexes; the order of a list only matters to
\* drop_duplicates(keep="first"), and records with one id are equal, so
\* one list per multiset is enough
RECURSIVE SortedIndexLists(_)
SortedIndexLists(len) ==
    IF len = 0 THEN {<<>>}
    ELSE {Append(p[1], p[2]) :
             p \in {q \in SortedIndexLists(len - 1) \X DOMAIN Catalogue :
                       len = 1 \/ q[1][len - 1] <= q[2]}}

StationLists(n) == UNION {SortedIndexLists(len) : len \in 0..n}

\* the records a list of catalogue indexes stands for
Stations(list) == [i \in DOMAIN list |-> Catalogue[list[i]]]

---------------------------------------------------------------------------
(* Merger.haversine_distance *)

Abs(x) == IF x < 0 THEN -x ELSE x

\* great-circle distance in metres of two points of the meridian
HaversineDistance(coord1, coord2) == Abs(coord2 - coord1)

---------------------------------------------------------------------------
(* Merger._prepare_geodataframe *)

\* the subsequence of s at the positions in keep
RECURSIVE SubSeqAt(_, _, _)
SubSeqAt(s, keep, i) ==
    IF i > Len(s) THEN <<>>
    ELSE IF i \in keep THEN <<s[i]>> \o SubSeqAt(s, keep, i + 1)
    ELSE SubSeqAt(s, keep, i + 1)

\* dropna(subset=["coordinates"]) after get_wkt
HasGeometry(station) == station.coordinates # BadWkt

\* a preparation without drop_duplicates(subset=["id"])
IsFirstOfIdForgotten(list, i) == TRUE

\* drop_duplicates(subset=["id"]): the first row of every id is kept
IsFirstOfId(list, i) == \A j \in 1..(i - 1) : list[j].id # list[i].id

\* operator.notna() & socket_type_list.notna()
IsComplete(station) ==
    station.operator # None /\ station.socket_type_list # None

\* one row of the frame: the flattened record, coordinates renamed to
\* geometry, with the two flags set to False
NewRow(station) ==
    [id |-> station.id,
     data_source |-> station.data_source,
     operator |-> station.operator,
     street |-> station.street,
     postcode |-> station.postcode,
     town |-> station.town,
     socket_type_list |-> station.socket_type_list,
     geometry |-> station.coordinates,
     is_duplicate |-> FALSE,
     merged_attributes |-> FALSE]

\* the rows before sample(frac=1.0), in list order
PreparedRows(list) ==
    LET withGeometry == SubSeqAt(list, {i \in DOMAIN list : HasGeometry(list[i])}, 1)
        uniqueIds == SubSeqAt(withGeometry,
                              {i \in DOMAIN withGeometry : IsFirstOfId(withGeometry, i)}, 1)
        complete == SubSeqAt(uniqueIds,
                             {i \in DOMAIN uniqueIds : IsComplete(uniqueIds[i])}, 1)
    IN  [i \in DOMAIN complete |-> NewRow(complete[i])]

Orders(n) ==
    {f \in [1..n -> 1..n] : \A i, j \in 1..n : f[i] = f[j] => i = j}

\* sample(frac=1.0): the rows in the order given by the permutation
Shuffled(rows, perm) == [i \in DOMAIN rows |-> rows[perm[i]]]

---------------------------------------------------------------------------
(* libpysal.weights.KNN.from_dataframe(stations_gdf, k) *)

\* a neighbour list that holds the row itself
KNearestWithSelf(rows, i, k) ==
    LET dist(j) == Abs(rows[j].geometry - rows[i].geometry)
    IN  IF Cardinality(DOMAIN rows) <= k THEN DOMAIN rows
        ELSE CHOOSE S \in SUBSET DOMAIN rows :
                /\ Cardinality(S) = k
                /\ \A a \in S, b \in DOMAIN rows \ S : dist(a) <= dist(b)

\* the k rows nearest to row i (all other rows if there are at most k)
KNearest(rows, i, k) ==
    LET others == DOMAIN rows \ {i}
        dist(j) == Abs(rows[j].geometry - rows[i].geometry)
    IN  IF Cardinality(others) <= k THEN others
        ELSE CHOOSE S \in SUBSET others :
                /\ Cardinality(S) = k
                /\ \A a \in S, b \in others \ S : dist(a) <= dist(b)

KNN(rows, k) ==
    [is_none |-> FALSE, neighbors |-> [i \in DOMAIN rows |-> KNearest(rows, i, k)]]

---------------------------------------------------------------------------
(* Merger._get_duplicate_candidates *)


\* a selector that forgets the is_duplicate filter
NotMarkedForgotten(row) == TRUE

\* self.stations_gdf["is_duplicate"] != True
NotMarked(row) == row.is_duplicate # TRUE


\* a selector that uses <= for the distance filter
IsRelevantNeighborInclusive(distance_meter, max_distance) ==
    distance_meter <= max_distance

\* neighbor_distances["distance_meter"] < max_distance
IsRelevantNeighbor(distance_meter, max_distance) == distance_meter < max_distance

\* the candidate frame: for every relevant neighbour its distance and a
\* copy of its row (pd.merge with self.stations_gdf); empty if none
GetDuplicateCandidates(rows, knn, current, max_distance) ==
    LET neighbors == {j \in DOMAIN rows :
                         j \in knn.neighbors[current.name] /\ NotMarked(rows[j])}
        distance(j) == HaversineDistance(rows[j].geometry, current.row.geometry)
        relevant == {j \in neighbors : IsRelevantNeighbor(distance(j), max_distance)}
    IN  [j \in relevant |-> [distance_meter |-> distance(j), row |-> rows[j]]]

---------------------------------------------------------------------------
(* Merger._determine_duplicates *)

DefaultScoreWeights ==
    [operator |-> DefaultOperatorWeight,
     address |-> DefaultAddressWeight,
     distance |-> DefaultDistanceWeight]

EmptyDict == [empty |-> TRUE]

\* score_weights if score_weights else dict(operator=0.2, address=0.1, distance=0.7)
EffectiveWeights(score_weights) ==
    IF score_weights = NoneObject \/ score_weights = EmptyDict
    THEN DefaultScoreWeights ELSE score_weights

\* an operator comparison without the None guard: None is compared as the
\* text str(None)
OperatorMatchUnguarded(current_operator, x) ==
    Ratio(Format(current_operator), Format(x))

OperatorMatch(current_operator, x) ==
    IF current_operator # None /\ x # None
    THEN Ratio(current_operator, Format(x)) ELSE ZeroRatio

AddressOf(row) == Format(row.street) \o Format(row.postcode) \o Format(row.town)

NoneNoneNone == NoneText \o NoneText \o NoneText

AddressMatch(current_station_address, x) ==
    IF current_station_address # NoneNoneNone /\ x # NoneNoneNone
    THEN Ratio(current_station_address, x) ELSE ZeroRatio

\* a score whose distance term is distance_meter / max_distance, without
\* the "1 -"
MatchingScoreByDistance(current_row, candidate, max_distance, weights) ==
    LET om == OperatorMatch(current_row.operator, candidate.row.operator)
        am == AddressMatch(AddressOf(current_row), AddressOf(candidate.row))
    IN  [num |-> weights.operator * om.num * am.den * max_distance
                 + weights.address * am.num * om.den * max_distance
                 + weights.distance * candidate.distance_meter * om.den * am.den,
         den |-> om.den * am.den * max_distance]

\* matching_score as the fraction num / den, den > 0 for max_distance > 0
MatchingScore(current_row, candidate, max_distance, weights) ==
    LET om == OperatorMatch(current_row.operator, candidate.row.operator)
        am == AddressMatch(AddressOf(current_row), AddressOf(candidate.row))
    IN  [num |-> weights.operator * om.num * am.den * max_distance
                 + weights.address * am.num * om.den * max_distance
                 + weights.distance * (max_distance - candidate.distance_meter)
                   * om.den * am.den,
         den |-> om.den * am.den * max_distance]

\* a flagging with >= in place of >
AtOrAboveThreshold(score, score_threshold) == score.num >= score_threshold * score.den

\* duplicate_candidates.matching_score > score_threshold
AboveThreshold(score, score_threshold) == score.num > score_threshold * score.den

\* a scorer that flags no candidate
DetermineNoDuplicates(current_row, candidates, score_threshold, max_distance, score_weights) ==
    [j \in {} |-> candidates[j]]

\* the candidate frame as _determine_duplicates leaves it: the scorer adds
\* its columns to the frame it was passed and sets is_duplicate in it
ScoredCandidates(current_row, candidates, score_threshold, max_distance, score_weights) ==
    LET weights == EffectiveWeights(score_weights)
        score(j) == MatchingScore(current_row, candidates[j], max_distance, weights)
    IN  [j \in DOMAIN candidates |->
            [distance_meter |-> candidates[j].distance_meter,
             row |-> [candidates[j].row EXCEPT !.is_duplicate =
                         candidates[j].row.is_duplicate
                            \/ AboveThreshold(score(j), score_threshold)],
             operator_match |-> OperatorMatch(current_row.operator,
                                              candidates[j].row.operator),
             address |-> AddressOf(candidates[j].row),
             address_match |-> AddressMatch(AddressOf(current_row),
                                            AddressOf(candidates[j].row)),
             matching_score |-> score(j)]]

\* the rows of the candidate frame flagged is_duplicate = True
DetermineDuplicates(current_row, candidates, score_threshold, max_distance, score_weights) ==
    LET weights == EffectiveWeights(score_weights)
        flagged == {j \in DOMAIN candidates :
                       AboveThreshold(MatchingScore(current_row, candidates[j],
                                                    max_distance, weights),
                                      score_threshold)}
    IN  [j \in flagged |->
            [distance_meter |-> candidates[j].distance_meter,
             row |-> [candidates[j].row EXCEPT !.is_duplicate = TRUE]]]

---------------------------------------------------------------------------
(* Merger._merge_duplicates *)

\* the pairs with the duplicate's sources in the opposite order: OSM first
OrderedDataSourcePairsReversed ==
    LET n == Len(DataSourceNames)
        all == [k \in 1..(n * n) |->
                   <<DataSourceNames[1 + ((k - 1) \div n)],
                     DataSourceNames[n - ((k - 1) % n)]>>]
        IsNotBNA(p) == p[1] # "BNA"
    IN  SelectSeq(all, IsNotBNA)

\* [(x, y) for x in data_sources for y in data_sources if x != "BNA"]
OrderedDataSourcePairs ==
    LET n == Len(DataSourceNames)
        all == [k \in 1..(n * n) |->
                   <<DataSourceNames[1 + ((k - 1) \div n)],
                     DataSourceNames[1 + ((k - 1) % n)]>>]
        IsNotBNA(p) == p[1] # "BNA"
    IN  SelectSeq(all, IsNotBNA)

\* duplicates.loc[duplicates["data_source"] == duplicate_data_source]
MergeableStations(dups, duplicate_data_source) ==
    {j \in DOMAIN dups : dups[j].row.data_source = duplicate_data_source}

\* the ranking as the docstring states it: a duplicate replaces the current
\* station only if its data source ranks before that of the current station
MergingPairsByRank(current_row, dups) ==
    {k \in DOMAIN OrderedDataSourcePairs :
        /\ OrderedDataSourcePairs[k][1] = current_row.data_source
        /\ MergeableStations(dups, OrderedDataSourcePairs[k][2]) # {}
        /\ \E a, b \in DOMAIN DataSourceNames :
              /\ DataSourceNames[a] = OrderedDataSourcePairs[k][2]
              /\ DataSourceNames[b] = OrderedDataSourcePairs[k][1]
              /\ a < b}

\* the pairs at which the loop does not "continue"
MergingPairs(current_row, dups) ==
    {k \in DOMAIN OrderedDataSourcePairs :
        /\ OrderedDataSourcePairs[k][1] = current_row.data_source
        /\ MergeableStations(dups, OrderedDataSourcePairs[k][2]) # {}}

Min(S) == CHOOSE x \in S : \A y \in S : x <= y

\* mergeable_stations.iloc[0]: the first mergeable row in frame order
SelectedName(current_row, dups) ==
    LET k == Min(MergingPairs(current_row, dups))
    IN  Min(MergeableStations(dups, OrderedDataSourcePairs[k][2]))


\* a replacement that leaves is_duplicate as the duplicates frame has it
SelectedStationStillMarked(current_row, dups) ==
    [dups[SelectedName(current_row, dups)].row EXCEPT !.merged_attributes = TRUE]

\* a replacement that forgets to set merged_attributes
SelectedStationFlagsKept(current_row, dups) ==
    [dups[SelectedName(current_row, dups)].row EXCEPT !.is_duplicate = FALSE]

\* selected_station with is_duplicate, merged_attributes = False, True
SelectedStation(current_row, dups) ==
    [dups[SelectedName(current_row, dups)].row
        EXCEPT !.is_duplicate = FALSE, !.merged_attributes = TRUE]

\* does _merge_duplicates assign to the current station's row
Replaces(current_row, dups) ==
    current_row.data_source # "BNA" /\ MergingPairs(current_row, dups) # {}


\* a resolver that takes the operator of the selected duplicate only and
\* keeps the other fields of the current station
MergeDuplicatesOperatorOnly(rows, current, dups) ==
    IF Replaces(current.row, dups)
    THEN [rows EXCEPT ![current.name] =
             [current.row EXCEPT
                 !.operator = SelectedStation(current.row, dups).operator,
                 !.merged_attributes = TRUE]]
    ELSE rows

\* a resolver without the data source ranking: the first duplicate replaces
\* the current station whatever the sources are
MergeDuplicatesAnySource(rows, current, dups) ==
    IF DOMAIN dups # {}
    THEN [rows EXCEPT ![current.name] =
             [dups[Min(DOMAIN dups)].row
                 EXCEPT !.is_duplicate = FALSE, !.merged_attributes = TRUE]]
    ELSE rows

\* a resolver that tags the current station as merged whenever it ran, also
\* when the row was not replaced
MergeDuplicatesAlwaysTagged(rows, current, dups) ==
    IF Replaces(current.row, dups)
    THEN [rows EXCEPT ![current.name] = SelectedStation(current.row, dups)]
    ELSE [rows EXCEPT ![current.name].merged_attributes = TRUE]

\* self.stations_gdf after _merge_duplicates
MergeDuplicates(rows, current, dups) ==
    IF Replaces(current.row, dups)
    THEN [rows EXCEPT ![current.name] = SelectedStation(current.row, dups)]
    ELSE rows


\* a marking that is left out
MarkNoRow(rows, dups) == rows

\* a marking that flags the whole frame once a duplicate was found
MarkEveryRow(rows, dups) ==
    [j \in DOMAIN rows |->
        IF DOMAIN dups # {} THEN [rows[j] EXCEPT !.is_duplicate = TRUE] ELSE rows[j]]

\* stations_gdf.loc[index.isin(duplicates.index), "is_duplicate"] = True
MarkDuplicates(rows, dups) ==
    [j \in DOMAIN rows |->
        IF j \in DOMAIN dups THEN [rows[j] EXCEPT !.is_duplicate = TRUE] ELSE rows[j]]

---------------------------------------------------------------------------
(* Inputs *)

DefaultParams ==
    [score_threshold |-> DefaultScoreThreshold,
     max_distance |-> DefaultMaxDistance,
     score_weights |-> NoneObject]

\* the lists merge is called with
StationListChoices == StationLists(MaxStations)

\* lists one station longer, for the behaviours that need four stations
LongerStationListChoices == StationLists(MaxStations + 1)

\* the keyword arguments merge is called with
ParamChoices == {DefaultParams}

\* the records a processed file of the data folder holds: one station of
\* one data source
FileContents ==
    {<<Catalogue[c]>> : c \in {1 + (s - 1) * Len(Positions) * Len(Operators) :
                                   s \in DOMAIN DataSourceNames}}

NoRow == [is_none |-> TRUE]

NoCandidates == <<>>

---------------------------------------------------------------------------
(* State after Merger() *)

Init ==
    /\ pc = "idle"
    /\ error = "none"
    /\ log = <<>>
    /\ data_sources = <<>>
    /\ stations_gdf = NoneObject
    /\ knn3 = NoneObject
    /\ merged_stations_gdf = NoneObject
    /\ params = DefaultParams
    /\ files_read = 0
    /\ idx = 0
    /\ current_station = NoRow
    /\ duplicate_candidates = NoCandidates
    /\ duplicates = NoCandidates
    /\ connector = NoneObject
    /\ raw_data = <<>>
    /\ processed_data = <<>>

merger_state == <<data_sources, stations_gdf, knn3, merged_stations_gdf>>

CouldNotLoad == "Could not load the processed station files!"

loop_locals == <<idx, current_station, duplicate_candidates, duplicates>>

---------------------------------------------------------------------------
(* Merger.merge, lines 288-302: the arguments *)

\* a merge that assigns the list before it looks at its length
MergeEmptyListAssigned ==
    /\ pc = "idle"
    /\ \E p \in ParamChoices : params' = p
    /\ data_sources' = <<>>
    /\ pc' = "raised"
    /\ error' = "RuntimeError: Your provided list of stations is empty!"
    /\ UNCHANGED <<connector_state, log, stations_gdf, knn3, merged_stations_gdf, files_read,
                   loop_locals>>

\* merge(stations_list=[]) raises before anything is assigned
MergeEmptyList ==
    /\ pc = "idle"
    /\ \E p \in ParamChoices : params' = p
    /\ pc' = "raised"
    /\ error' = "RuntimeError: Your provided list of stations is empty!"
    /\ UNCHANGED <<connector_state, log, merger_state, files_read, loop_locals>>

\* merge(stations_list=list) with a non-empty list
MergeStationsListFrom(choices) ==
    /\ pc = "idle"
    /\ \E list \in choices, p \in ParamChoices :
          /\ ~(Len(list) < 1)
          /\ data_sources' = Stations(list)
          /\ params' = p
    /\ pc' = "prepare"
    /\ error' = "none"
    /\ UNCHANGED <<connector_state, log, stations_gdf, knn3, merged_stations_gdf, files_read,
                   loop_locals>>

MergeStationsList == MergeStationsListFrom(StationListChoices)

MergeLongerStationsList == MergeStationsListFrom(LongerStationListChoices)

\* merge() without a list: _load_data() if nothing is held yet
MergeNoList ==
    /\ pc = "idle"
    /\ \E p \in ParamChoices : params' = p
    /\ IF Len(data_sources) < 1
       THEN pc' = "merge_load" /\ files_read' = 0
       ELSE pc' = "prepare" /\ UNCHANGED files_read
    /\ error' = "none"
    /\ UNCHANGED <<connector_state, log, merger_state, loop_locals>>

---------------------------------------------------------------------------
(* Merger._load_data *)

\* a direct call, as the tests make it
CallLoadData ==
    /\ pc = "idle"
    /\ pc' = "load_data"
    /\ files_read' = 0
    /\ error' = "none"
    /\ UNCHANGED <<connector_state, log, merger_state, params, loop_locals>>

Loading == pc \in {"merge_load", "load_data"}

\* an exception inside _load_data: merge catches and logs it and goes on,
\* a direct caller gets it
LoadRaises(message) ==
    IF pc = "merge_load"
    THEN pc' = "prepare" /\ log' = Append(log, CouldNotLoad) /\ UNCHANGED error
    ELSE pc' = "raised" /\ error' = message /\ UNCHANGED log

\* os.listdir(self.base_path) raises
LoadListdirFails ==
    /\ Loading
    /\ files_read = 0
    /\ LoadRaises("OSError")
    /\ UNCHANGED <<connector_state, merger_state, params, files_read, loop_locals>>

\* a directory entry that is not a processed station file: continue
LoadSkipFile ==
    /\ Loading
    /\ files_read < MaxFiles
    /\ files_read' = files_read + 1
    /\ UNCHANGED <<connector_state, log, pc, error, merger_state, params, loop_locals>>

\* a processed station file is read: self.data_sources += json.load(f)
LoadReadFile ==
    /\ Loading
    /\ files_read < MaxFiles
    /\ \E content \in FileContents :
          /\ Len(data_sources) + Len(content) <= MaxLoaded
          /\ data_sources' = data_sources \o content
    /\ files_read' = files_read + 1
    /\ UNCHANGED <<connector_state, log, pc, error, stations_gdf, knn3, merged_stations_gdf, params,
                   loop_locals>>

\* open() or json.load() raises on a processed station file; what earlier
\* files added to self.data_sources stays
LoadFileFails ==
    /\ Loading
    /\ files_read < MaxFiles
    /\ LoadRaises("load error")
    /\ files_read' = 0
    /\ UNCHANGED <<connector_state, merger_state, params, loop_locals>>

\* the listing is exhausted: RuntimeError if nothing was read, else return
LoadEnd ==
    /\ Loading
    /\ IF Len(data_sources) < 1
       THEN LoadRaises("RuntimeError: Could not read any json files!")
       ELSE /\ pc' = IF pc = "merge_load" THEN "prepare" ELSE "idle"
            /\ UNCHANGED <<error, log>>
    /\ files_read' = 0
    /\ UNCHANGED <<connector_state, merger_state, params, loop_locals>>

---------------------------------------------------------------------------
(* Merger.merge, lines 304-305 *)

\* _prepare_geodataframe on an empty list: json_normalize gives a frame
\* without columns and drop() raises KeyError
PrepareRaises ==
    /\ pc = "prepare"
    /\ Len(data_sources) < 1
    /\ pc' = "raised"
    /\ error' = "KeyError"
    /\ UNCHANGED <<connector_state, log, merger_state, params, files_read, loop_locals>>

\* the frame is built and shuffled, the KNN weights are built on it
Prepare ==
    /\ pc = "prepare"
    /\ Len(data_sources) >= 1
    /\ LET rows == PreparedRows(data_sources)
       IN  \E perm \in Orders(Len(rows)) :
              /\ stations_gdf' = Frame(Shuffled(rows, perm))
              /\ knn3' = KNN(Shuffled(rows, perm), KNN_K)
    /\ pc' = "loop"
    /\ idx' = 1
    /\ UNCHANGED <<connector_state, log, error, data_sources, merged_stations_gdf, params, files_read,
                   current_station, duplicate_candidates, duplicates>>

\* every record was filtered out: the frame is empty, and KNN.from_dataframe
\* may refuse an empty frame (the library decides); then merge is left after
\* line 304 has assigned the frame
PrepareEmptyFrameRaises ==
    /\ pc = "prepare"
    /\ Len(data_sources) >= 1
    /\ Len(PreparedRows(data_sources)) = 0
    /\ stations_gdf' = Frame(<<>>)
    /\ pc' = "raised"
    /\ error' = "KNN: empty frame"
    /\ UNCHANGED <<connector_state, log, data_sources, knn3, merged_stations_gdf, params, files_read,
                   loop_locals>>

---------------------------------------------------------------------------
(* Merger.merge, lines 307-335: the loop *)

Current(rows, i) == [is_none |-> FALSE, name |-> i, row |-> rows[i]]

\* a loop body without the "continue" on an empty candidate frame: the marking
\* and _merge_duplicates run with the duplicates of an earlier pass
IterateNoContinue ==
    /\ pc = "loop"
    /\ idx <= Len(stations_gdf.rows)
    /\ LET rows == stations_gdf.rows
           current == Current(rows, idx)
           candidates == GetDuplicateCandidates(rows, knn3, current,
                                                params.max_distance)
           dups == IF DOMAIN candidates = {} THEN duplicates
                   ELSE DetermineDuplicates(current.row, candidates,
                                            params.score_threshold,
                                            params.max_distance,
                                            EffectiveWeights(params.score_weights))
       IN  /\ current_station' = current
           /\ IF current.row.is_duplicate
              THEN UNCHANGED <<stations_gdf, duplicate_candidates, duplicates>>
              ELSE /\ duplicate_candidates' =
                         IF DOMAIN candidates = {} THEN candidates
                         ELSE ScoredCandidates(current.row, candidates,
                                               params.score_threshold,
                                               params.max_distance,
                                               EffectiveWeights(params.score_weights))
                   /\ duplicates' = dups
                   /\ stations_gdf' =
                         Frame(MergeDuplicates(MarkDuplicates(rows, dups),
                                               current, dups))
    /\ idx' = idx + 1
    /\ UNCHANGED <<connector_state, log, pc, error, data_sources, knn3, merged_stations_gdf, params,
                   files_read>>

\* one pass through the loop body
Iterate ==
    /\ pc = "loop"
    /\ idx <= Len(stations_gdf.rows)
    /\ LET rows == stations_gdf.rows
           current == Current(rows, idx)
           candidates == GetDuplicateCandidates(rows, knn3, current,
                                                params.max_distance)
           dups == DetermineDuplicates(current.row, candidates,
                                       params.score_threshold,
                                       params.max_distance,
                                       EffectiveWeights(params.score_weights))
       IN  /\ current_station' = current
           /\ IF current.row.is_duplicate
              THEN UNCHANGED <<stations_gdf, duplicate_candidates, duplicates>>
              ELSE /\ duplicate_candidates' =
                         IF DOMAIN candidates = {} THEN candidates
                         ELSE ScoredCandidates(current.row, candidates,
                                               params.score_threshold,
                                               params.max_distance,
                                               EffectiveWeights(params.score_weights))
                   /\ IF DOMAIN candidates = {}
                      THEN UNCHANGED <<stations_gdf, duplicates>>
                      ELSE /\ duplicates' = dups
                           /\ stations_gdf' =
                                 Frame(MergeDuplicates(MarkDuplicates(rows, dups),
                                                       current, dups))
    /\ idx' = idx + 1
    /\ UNCHANGED <<connector_state, log, pc, error, data_sources, knn3, merged_stations_gdf, params,
                   files_read>>


\* an output that forgets to leave out the marked rows
NotDuplicateRowsForgotten(rows) == [j \in DOMAIN rows |-> rows[j]]

\* an output that also leaves out the rows that were replaced
NotDuplicateNorMergedRows(rows) ==
    LET keep == {j \in DOMAIN rows :
                    ~rows[j].is_duplicate /\ ~rows[j].merged_attributes}
    IN  [j \in keep |-> rows[j]]

\* stations_gdf.loc[~stations_gdf["is_duplicate"], :]
NotDuplicateRows(rows) ==
    LET keep == {j \in DOMAIN rows : ~rows[j].is_duplicate}
    IN  [j \in keep |-> rows[j]]

\* a loop that is left after the first visit
FinishEarly ==
    /\ pc = "loop"
    /\ idx > 1
    /\ merged_stations_gdf' =
          [is_none |-> FALSE, rows |-> NotDuplicateRows(stations_gdf.rows)]
    /\ pc' = "done"
    /\ UNCHANGED <<connector_state, log, error, data_sources, stations_gdf, knn3, params, files_read,
                   loop_locals>>

\* the loop is over: merged_stations_gdf is set and merge returns
Finish ==
    /\ pc = "loop"
    /\ idx > Len(stations_gdf.rows)
    /\ merged_stations_gdf' =
          [is_none |-> FALSE, rows |-> NotDuplicateRows(stations_gdf.rows)]
    /\ pc' = "done"
    /\ UNCHANGED <<connector_state, log, error, data_sources, stations_gdf, knn3, params, files_read,
                   loop_locals>>

Next ==
    \/ MergeEmptyList
    \/ MergeStationsList
    \/ MergeNoList
    \/ CallLoadData
    \/ LoadListdirFails
    \/ LoadSkipFile
    \/ LoadReadFile
    \/ LoadFileFails
    \/ LoadEnd
    \/ PrepareRaises
    \/ Prepare
    \/ PrepareEmptyFrameRaises
    \/ Iterate
    \/ Finish

Spec == Init /\ [][Next]_vars

\* a step of the loop of merge: a pass or the end of the loop
LoopStep == Iterate \/ Finish

\* The statements of merge run one after the other, so the loop is not left
\* standing: weak fairness of LoopStep.  A step of the loop can be taken
\* exactly when pc = "loop" and it always changes idx or pc, so
\* WF_vars(LoopStep) is written with that enabling condition in place of
\* ENABLED <<LoopStep>>_vars.
SpecLoop ==
    /\ Init
    /\ [][Next]_vars
    /\ ([]<>(pc # "loop") \/ []<><<LoopStep>>_vars)

\* the same machine, merge being called with lists of up to MaxStations + 1
\* stations
NextLonger ==
    \/ MergeEmptyList
    \/ MergeLongerStationsList
    \/ MergeNoList
    \/ CallLoadData
    \/ LoadListdirFails
    \/ LoadSkipFile
    \/ LoadReadFile
    \/ LoadFileFails
    \/ LoadEnd
    \/ PrepareRaises
    \/ Prepare
    \/ PrepareEmptyFrameRaises
    \/ Iterate
    \/ Finish

SpecLonger == Init /\ [][NextLonger]_vars

---------------------------------------------------------------------------
(* Merger._determine_duplicates called on its own *)

MaxCandidates == 2      \* most rows of a candidate frame passed to the scorer

\* operators of the rows the scorer is called with: equal, partly equal, None
ScoreOperators == <<OperatorA, OperatorA \o OperatorB, None>>

\* street, postcode and town of these rows: all None, all given, one None
ScoreAddresses ==
    <<[street |-> None, postcode |-> None, town |-> None],
      [street |-> <<"s">>, postcode |-> <<"1">>, town |-> <<"t">>],
      [street |-> <<"s">>, postcode |-> None, town |-> <<"t">>]>>

\* distance_meter values of the candidate frames, all below max_distance
ScoreDistances == <<0, 30, 50>>

ScoreRow(operator, address) ==
    [NewRow(Station(0, "OCM", 0, operator, SocketTypes))
        EXCEPT !.street = address.street,
               !.postcode = address.postcode,
               !.town = address.town]

ScoreRows ==
    {ScoreRow(ScoreOperators[o], ScoreAddresses[a]) :
        o \in DOMAIN ScoreOperators, a \in DOMAIN ScoreAddresses}

NumCandidateRows ==
    Len(ScoreDistances) * Len(ScoreOperators) * Len(ScoreAddresses)

\* a row of a candidate frame: a station row and its distance_meter
CandidateRowAt(k) ==
    LET no == Len(ScoreOperators)
        na == Len(ScoreAddresses)
    IN  [distance_meter |-> ScoreDistances[1 + ((k - 1) \div (no * na))],
         row |-> ScoreRow(ScoreOperators[1 + (((k - 1) \div na) % no)],
                          ScoreAddresses[1 + ((k - 1) % na)])]

RECURSIVE SortedFrameIndexes(_)
SortedFrameIndexes(len) ==
    IF len = 0 THEN {<<>>}
    ELSE {Append(p[1], p[2]) :
             p \in {q \in SortedFrameIndexes(len - 1) \X (1..NumCandidateRows) :
                       len = 1 \/ q[1][len - 1] <= q[2]}}

\* candidate frames of 1..n rows; the rows of a frame are scored one by one,
\* so frames that differ in the order of their rows only are left out
CandidateFrames(n) ==
    UNION {{[i \in 1..len |-> CandidateRowAt(s[i])] : s \in SortedFrameIndexes(len)} :
           len \in 1..n}

CandidateFrameChoices == CandidateFrames(MaxCandidates)

\* keyword arguments of the scorer: the defaults, an empty dict of weights, a
\* negative distance weight, the distance alone with a threshold of 0.5
ScoreParamChoices ==
    {DefaultParams,
     [DefaultParams EXCEPT !.score_weights = EmptyDict],
     [DefaultParams EXCEPT !.score_weights =
         [operator |-> DefaultOperatorWeight, address |-> DefaultAddressWeight,
          distance |-> 0 - DefaultDistanceWeight]],
     [DefaultParams EXCEPT !.score_threshold = 50,
                           !.score_weights =
         [operator |-> 0, address |-> 0, distance |-> 100]]}

\* _determine_duplicates(current_station, duplicate_candidates, ...) on a
\* Merger that holds nothing: it reads its arguments only
CallDetermineDuplicates ==
    /\ pc = "idle"
    /\ \E row \in ScoreRows, frame \in CandidateFrameChoices,
          p \in ScoreParamChoices :
          /\ current_station' = Current(<<row>>, 1)
          /\ duplicate_candidates' =
                ScoredCandidates(row, frame, p.score_threshold, p.max_distance,
                                 p.score_weights)
          /\ params' = p
          /\ duplicates' = DetermineDuplicates(row, frame, p.score_threshold,
                                               p.max_distance, p.score_weights)
    /\ pc' = "determined"
    /\ UNCHANGED <<connector_state, log, error, merger_state, files_read, idx>>

NextScore == CallDetermineDuplicates

SpecScore == Init /\ [][NextScore]_vars

---------------------------------------------------------------------------
(* Merger.haversine_distance called on its own *)

\* The floating-point arithmetic of the code is modelled in fixed point:
\* degrees are integers of 10^-6 degree, radians integers of 10^-9 rad,
\* cosines integers of 10^-4, squared sines integers of 16 * 10^-18, and the
\* returned distance is in hundredths of a metre.  The series of sin, cos
\* and arcsin are cut where their terms fall below that resolution, which
\* holds for latitudes up to 60 degrees and points up to 0.009 degree apart.

MaxCoordRows == 2       \* most rows of a coords frame

EarthRadius == 6371     \* earth_radius, in kilometres

\* np.radians: x * pi / 180, with pi / 180 = 0.017453293
Radians(x) ==
    17 * x + (x \div 1000) * 453 + ((x \div 1000) * 293) \div 1000
           + ((x % 1000) * 453293) \div 1000000

\* np.sin of a small angle: x - x^3 / 6
Sin(x) ==
    LET m == x \div 1000
    IN  x - ((m * m * m) \div 6000) \div 1000000

\* np.sin(...) ** 2
SinSquared(x) == (Sin(x) \div 4) * (Sin(x) \div 4)

\* np.cos: 1 - x^2 / 2 + x^4 / 24 - x^6 / 720 + x^8 / 40320
Cos(x) ==
    LET y == x \div 100000
        x2 == (y * y) \div 10000
        x4 == (x2 * x2) \div 10000
        x6 == (x4 * x2) \div 10000
        x8 == (x6 * x2) \div 10000
    IN  10000 - x2 \div 2 + x4 \div 24 - x6 \div 720 + x8 \div 40320

RECURSIVE SqrtBetween(_, _, _)
SqrtBetween(n, low, high) ==
    IF low = high THEN low
    ELSE LET mid == (low + high + 1) \div 2
         IN  IF mid * mid <= n THEN SqrtBetween(n, mid, high)
             ELSE SqrtBetween(n, low, mid - 1)

\* np.sqrt, rounded down
Sqrt(n) == SqrtBetween(n, 0, 46340)

\* np.arcsin of a small value: x + x^3 / 6
ArcSin(x) ==
    LET m == x \div 1000
    IN  x + ((m * m * m) \div 6000) \div 1000000

\* the distance of one row with a flat longitude term: cos(lat1) * cos(lat2)
\* is left out
HaversineOfRowFlat(row, earth_radius) ==
    LET lat1 == Radians(row.lat1)
        lat2 == Radians(row.lat2)
        lon1 == Radians(row.lon1)
        lon2 == Radians(row.lon2)
        delta_lat_sin_squared == SinSquared((lat2 - lat1) \div 2)
        delta_lon_sin_squared == SinSquared((lon2 - lon1) \div 2)
        a == delta_lat_sin_squared + delta_lon_sin_squared
    IN  (earth_radius * 2 * ArcSin(4 * Sqrt(a))) \div 10000

\* the distance of one row of coords, lines 67-81
HaversineOfRow(row, earth_radius) ==
    LET lat1 == Radians(row.lat1)
        lat2 == Radians(row.lat2)
        lon1 == Radians(row.lon1)
        lon2 == Radians(row.lon2)
        delta_lat_sin_squared == SinSquared((lat2 - lat1) \div 2)
        delta_lon_sin_squared == SinSquared((lon2 - lon1) \div 2)
        cos_product == (Cos(lat1) * Cos(lat2)) \div 10000
        a == delta_lat_sin_squared
                + (delta_lon_sin_squared \div 10000) * cos_product
                + ((delta_lon_sin_squared % 10000) * cos_product) \div 10000
    IN  (earth_radius * 2 * ArcSin(4 * Sqrt(a))) \div 10000

\* haversine_distance(coords, to_radians=True, earth_radius): the series of
\* the distances of the rows of coords
haversine_distance(coords, earth_radius) ==
    [i \in DOMAIN coords |-> HaversineOfRow(coords[i], earth_radius)]

Coords(lon1, lat1, lon2, lat2) ==
    [lon1 |-> lon1, lat1 |-> lat1, lon2 |-> lon2, lat2 |-> lat2]

\* the rows of test_haversine_distance and the distances it expects
TestCoords ==
    <<Coords(-77037852, 38898556, -77043934, 38897147),
      Coords(10944427, 48402489, 10940854, 48397232)>>

ExpectedDistance == <<54916, 64131>>

\* the rows coords frames are made of: the rows of the test, the same rows
\* backwards, a point twice, points on a meridian, on the equator and on a
\* parallel, and points either side of the equator and of the zero meridian
CoordRows ==
    <<TestCoords[1],
      TestCoords[2],
      Coords(-77043934, 38897147, -77037852, 38898556),
      Coords(10940854, 48397232, 10944427, 48402489),
      Coords(10944427, 48402489, 10944427, 48402489),
      Coords(10944427, 48402489, 10944427, 48411489),
      Coords(10944427, 0, 10953427, 0),
      Coords(10944427, 60000000, 10953427, 60000000),
      Coords(-4500, -4500, 4500, 4500),
      Coords(10944427, 48402489, 10945427, 48402489)>>

RECURSIVE CoordFramesOfLen(_)
CoordFramesOfLen(len) ==
    IF len = 0 THEN {<<>>}
    ELSE {Append(p[1], p[2]) :
             p \in CoordFramesOfLen(len - 1) \X (DOMAIN CoordRows)}

\* coords frames of 1..n rows, as lists of indexes into CoordRows
CoordFrames(n) == UNION {CoordFramesOfLen(len) : len \in 1..n}

CoordFrameChoices == CoordFrames(MaxCoordRows)

\* haversine_distance(coords) with the default arguments; coords.apply makes
\* a new frame, so the frame of the caller stays as it is
CallHaversineDistance ==
    /\ pc = "idle"
    /\ \E frame \in CoordFrameChoices :
          LET coords == [i \in DOMAIN frame |-> CoordRows[frame[i]]]
          IN  /\ duplicate_candidates' = coords
              /\ duplicates' = haversine_distance(coords, EarthRadius)
    /\ pc' = "measured"
    /\ UNCHANGED <<connector_state, log, error, merger_state, params, files_read, idx,
                   current_station>>

NextHaversine == CallHaversineDistance

SpecHaversine == Init /\ [][NextHaversine]_vars

---------------------------------------------------------------------------
(* The connectors: OCMConnector, BNAConnector, OSMConnector *)

MaxRaw == 2             \* most records of a raw_data list with malformed records

MaxPostcodeLen == 6     \* most characters of a raw postcode value

\* a raw value that is a number (an int, a float, NaN), not a string
ANumber == <<"<Number>">>

\* isinstance(v, str)
IsStr(v) == v # None /\ v # ANumber

Digits == {"0", "1", "2", "3", "4", "5", "6", "7", "8", "9"}

\* s.isdigit() of one character
IsDigit(s) == s \in Digits

\* s.isspace() of one character
IsSpace(s) == s = " "

\* "".join([s for s in text if s.isdigit()])
OnlyDigits(text) == SelectSeq(text, IsDigit)

\* sub in text
RECURSIVE Contains(_, _)
Contains(text, sub) ==
    IF Len(sub) > Len(text) THEN FALSE
    ELSE IF SubSeq(text, 1, Len(sub)) = sub THEN TRUE
    ELSE Contains(Tail(text), sub)

\* text.split(sep), sep one character
RECURSIVE Split(_, _)
Split(text, sep) ==
    IF \A k \in DOMAIN text : text[k] # sep THEN <<text>>
    ELSE LET k == CHOOSE i \in DOMAIN text :
                     text[i] = sep /\ \A j \in 1..(i - 1) : text[j] # sep
         IN  <<SubSeq(text, 1, k - 1)>> \o Split(SubSeq(text, k + 1, Len(text)), sep)

\* text.replace(old, new)
RECURSIVE Replace(_, _, _)
Replace(text, old, new) ==
    IF Len(text) < Len(old) THEN text
    ELSE IF SubSeq(text, 1, Len(old)) = old
         THEN new \o Replace(SubSeq(text, Len(old) + 1, Len(text)), old, new)
         ELSE <<Head(text)>> \o Replace(Tail(text), old, new)

RECURSIVE Concat(_)
Concat(lists) == IF lists = <<>> THEN <<>> ELSE Head(lists) \o Concat(Tail(lists))

DC == <<"D", "C">>

SocketPrefix == <<"s", "o", "c", "k", "e", "t", ":">>

\* A raw record, by the parts of it process reads:
\*   coords      the two coordinate values (BNA: the columns "Längengrad [DG]"
\*               and "Breitengrad [DG]"; OCM: AddressInfo.Longitude/Latitude;
\*               OSM: lon/lat): "number", "unreadable" (check_coordinates
\*               raises) or "missing" (no such key)
\*   address_info  OCM: is AddressInfo a dict ("dict") or null ("none")
\*   record_id   OCM: AddressInfo.ID, OSM: id: "given" or "none"
\*   postcode    BNA: "Postleitzahl Ort", OCM: AddressInfo.Postcode, OSM:
\*               tags["addr:postcode"]: a string, None or a number
\*   sockets     BNA: the values of the "Steckertypen" columns, OCM: the
\*               CurrentType.Title of the connections, OSM: the keys of tags
\*   other_keys  BNA: "Betreiber", OCM: "UsageType" and "OperatorInfo":
\*               "present" or "missing"
RawStation(coords, address_info, record_id, postcode, sockets, other_keys) ==
    [coords |-> coords,
     address_info |-> address_info,
     record_id |-> record_id,
     postcode |-> postcode,
     sockets |-> sockets,
     other_keys |-> other_keys]

\* the exception of the lines of process that compute the identifier, which
\* stand outside the try blocks; "none" if they pass
IdentifierError(data_source, station_raw) ==
    CASE data_source = "BNA" ->
            IF station_raw.coords = "missing" THEN "KeyError" ELSE "none"
      [] data_source = "OCM" ->
            IF station_raw.address_info = "none" THEN "AttributeError"
            ELSE IF station_raw.record_id = "none" /\ station_raw.coords = "missing"
                 THEN "KeyError"
                 ELSE "none"
      [] data_source = "OSM" ->
            IF station_raw.record_id = "none" /\ station_raw.coords = "missing"
            THEN "KeyError"
            ELSE "none"

Raises == [raises |-> TRUE]

\* a postcode that is kept whatever its length
CheckedPostcodeAnyLength(postcode) == postcode

\* if len(postcode) != 5: postcode = None
CheckedPostcode(postcode) == IF Len(postcode) # 5 THEN None ELSE postcode

\* BNAConnector._create_address: the digits of "Postleitzahl Ort" are the
\* postcode, its other characters but the spaces the town
CreateAddressBNA(station_raw) ==
    IF ~IsStr(station_raw.postcode) THEN Raises
    ELSE LET postcode_town == station_raw.postcode
             IsPostcode(s) == ~IsSpace(s) /\ IsDigit(s)
             IsTown(s) == ~IsSpace(s) /\ ~IsDigit(s)
             town == SelectSeq(postcode_town, IsTown)
         IN  [raises |-> FALSE,
              postcode |-> CheckedPostcode(SelectSeq(postcode_town, IsPostcode)),
              town |-> IF Len(town) < 2 THEN None ELSE town]

\* OCMConnector._create_address and OSMConnector._create_address, the
\* postcode: "".join of the digits of a string, "" for None
CreateAddressOCM(station_raw) ==
    IF station_raw.postcode = ANumber THEN Raises
    ELSE [raises |-> FALSE,
          postcode |-> CheckedPostcode(IF station_raw.postcode = None THEN <<>>
                                       ELSE OnlyDigits(station_raw.postcode)),
          town |-> None]

CreateAddress(data_source, station_raw) ==
    IF data_source = "BNA" THEN CreateAddressBNA(station_raw)
    ELSE CreateAddressOCM(station_raw)

\* any(["DC" in s for s in socket_type_list])
AnyDC(socket_type_list) ==
    \E k \in DOMAIN socket_type_list : Contains(socket_type_list[k], DC)

\* BNAConnector._create_charging, lines 196-209
CreateChargingBNA(station_raw) ==
    LET socket_types_infos == SelectSeq(station_raw.sockets, IsStr)
        pieces == [k \in DOMAIN socket_types_infos |->
                      Split(socket_types_infos[k], ",")]
    IN  [raises |-> FALSE,
         socket_type_list |-> Concat(pieces),
         dc_support |-> \E k \in DOMAIN pieces : AnyDC(pieces[k])]

\* OCMConnector._create_charging, lines 168-190: "DC" in s raises for a
\* title that is not a string
CreateChargingOCM(station_raw) ==
    LET HasTitle(title) == title # None
        socket_type_list == SelectSeq(station_raw.sockets, HasTitle)
    IN  IF \E k \in DOMAIN socket_type_list : ~IsStr(socket_type_list[k])
        THEN Raises
        ELSE [raises |-> FALSE,
              socket_type_list |-> socket_type_list,
              dc_support |-> AnyDC(socket_type_list)]

\* OSMConnector._create_charging, lines 189-190 and 217-219
CreateChargingOSM(station_raw) ==
    LET IsSocketKey(k) == Contains(k, SocketPrefix)
        keys == SelectSeq(station_raw.sockets, IsSocketKey)
    IN  [raises |-> FALSE,
         socket_type_list |-> [k \in DOMAIN keys |->
                                  Replace(keys[k], SocketPrefix, <<>>)],
         dc_support |-> FALSE]

CreateCharging(data_source, station_raw) ==
    CASE data_source = "BNA" -> CreateChargingBNA(station_raw)
      [] data_source = "OCM" -> CreateChargingOCM(station_raw)
      [] data_source = "OSM" -> CreateChargingOSM(station_raw)

\* does _create_station raise: check_coordinates, station_raw[...] of a key
\* that is missing
CreateStationRaises(data_source, station_raw) ==
    \/ station_raw.coords # "number"
    \/ data_source \in {"BNA", "OCM"} /\ station_raw.other_keys = "missing"

\* the station dict of a raw record
ProcessedStation(data_source, station_raw) ==
    [data_source |-> data_source,
     address |-> [postcode |-> CreateAddress(data_source, station_raw).postcode,
                  town |-> CreateAddress(data_source, station_raw).town],
     charging |-> [socket_type_list |->
                      CreateCharging(data_source, station_raw).socket_type_list,
                   dc_support |-> CreateCharging(data_source, station_raw).dc_support],
     raw_data |-> station_raw]

\* is one of the three try blocks of the loop body left with "continue"
Skipped(data_source, station_raw) ==
    \/ CreateAddress(data_source, station_raw).raises
    \/ CreateCharging(data_source, station_raw).raises
    \/ CreateStationRaises(data_source, station_raw)

Postcode12345 == <<"1", "2", "3", "4", "5">>

\* socket values of a well-formed record of each source
GoodSockets(data_source) ==
    CASE data_source = "BNA" -> <<<<"A", "C", ",", "D", "C">>>>
      [] data_source = "OCM" -> <<<<"A", "C">>, DC>>
      [] data_source = "OSM" -> <<SocketPrefix \o <<"t", "2">>, <<"f", "e", "e">>>>

GoodRaw(data_source) ==
    RawStation("number", "dict", "given", Postcode12345, GoodSockets(data_source),
               "present")

\* a well-formed record and records malformed in one place
CoreRaw(data_source) ==
    LET good == GoodRaw(data_source)
    IN  <<good,
          [good EXCEPT !.sockets = <<>>],
          [good EXCEPT !.coords = "unreadable"],
          [good EXCEPT !.coords = "missing"],
          [good EXCEPT !.record_id = "none"],
          [good EXCEPT !.record_id = "none", !.coords = "missing"],
          [good EXCEPT !.address_info = "none"],
          [good EXCEPT !.postcode = ANumber],
          [good EXCEPT !.postcode = None],
          [good EXCEPT !.other_keys = "missing"],
          [good EXCEPT !.sockets = <<ANumber>>]>>

RECURSIVE ListsOfLen(_, _)
ListsOfLen(n, len) ==
    IF len = 0 THEN {<<>>}
    ELSE {Append(p[1], p[2]) : p \in ListsOfLen(n, len - 1) \X (1..n)}

\* raw_data lists of up to n records of CoreRaw, as lists of indexes
CoreLists(n) == UNION {ListsOfLen(Len(CoreRaw("OCM")), len) : len \in 0..n}

CoreListChoices == CoreLists(MaxRaw)

PostcodeAlphabet == {"1", "a", " "}

RECURSIVE Texts(_, _)
Texts(alphabet, len) ==
    IF len = 0 THEN {<<>>}
    ELSE {Append(p[1], p[2]) : p \in Texts(alphabet, len - 1) \X alphabet}

\* the raw postcode values: every text of up to n characters
Postcodes(n) == UNION {Texts(PostcodeAlphabet, len) : len \in 0..n}

PostcodeChoices == Postcodes(MaxPostcodeLen) \cup {<<"1", "2", "3", "4", "5", "6">>}

\* the raw socket values of each source
SocketValues(data_source) ==
    CASE data_source = "BNA" ->
            {DC, <<"A", "C">>, <<"C", "D">>, <<"D", ",", "C">>,
             <<"A", "C", ",", "x", "D", "C">>, ANumber}
      [] data_source = "OCM" ->
            {DC, <<"A", "C">>, <<"C", "D">>, <<"x", "D", "C", "x">>, None}
      [] data_source = "OSM" ->
            {SocketPrefix \o DC, SocketPrefix \o <<"t", "2">>, DC,
             <<"D">> \o SocketPrefix \o <<"C">>, <<"f", "e", "e">>}

SocketChoices(data_source) ==
    LET values == SocketValues(data_source)
    IN  {<<>>} \cup {<<v>> : v \in values} \cup {<<v, w>> : v, w \in values}

\* raw_data lists: lists of CoreRaw records, and lists of one well-formed
\* record with each raw postcode and each list of raw socket values
RawDataChoices(data_source) ==
    LET good == GoodRaw(data_source)
        core == CoreRaw(data_source)
    IN  {[i \in DOMAIN list |-> core[list[i]]] : list \in CoreListChoices}
        \cup {<<[good EXCEPT !.postcode = p]>> : p \in PostcodeChoices}
        \cup {<<[good EXCEPT !.sockets = s]>> : s \in SocketChoices(data_source)}

\* a connector is made and its raw_data set (load or get_data)
ConnectorLoad ==
    /\ pc = "idle"
    /\ \E data_source \in {"BNA", "OCM", "OSM"} :
          /\ connector' = [is_none |-> FALSE, data_source |-> data_source]
          /\ raw_data' \in RawDataChoices(data_source)
    /\ processed_data' = <<>>
    /\ pc' = "loaded"
    /\ UNCHANGED <<log, error, merger_state, params, files_read, loop_locals>>

\* process(): raw_data is empty
ProcessNoData ==
    /\ pc = "loaded"
    /\ raw_data = <<>>
    /\ pc' = "raised"
    /\ error' = "RuntimeError"
    /\ UNCHANGED <<log, merger_state, params, files_read, loop_locals,
                   connector_state>>

\* process(): the loop over raw_data starts
ProcessStart ==
    /\ pc = "loaded"
    /\ raw_data # <<>>
    /\ pc' = "process"
    /\ idx' = 1
    /\ UNCHANGED <<log, error, merger_state, params, files_read, current_station,
                   duplicate_candidates, duplicates, connector_state>>

\* one pass of the loop of process
ProcessStation ==
    /\ pc = "process"
    /\ idx <= Len(raw_data)
    /\ LET station_raw == raw_data[idx]
           data_source == connector.data_source
       IN  IF IdentifierError(data_source, station_raw) # "none"
           THEN /\ pc' = "raised"
                /\ error' = IdentifierError(data_source, station_raw)
                /\ UNCHANGED <<idx, processed_data>>
           ELSE /\ IF Skipped(data_source, station_raw)
                   THEN UNCHANGED processed_data
                   ELSE processed_data' =
                           processed_data
                              \o <<ProcessedStation(data_source, station_raw)>>
                /\ idx' = idx + 1
                /\ UNCHANGED <<pc, error>>
    /\ UNCHANGED <<log, merger_state, params, files_read, current_station,
                   duplicate_candidates, duplicates, connector, raw_data>>

\* the loop of process is over (to_disk=False)
ProcessEnd ==
    /\ pc = "process"
    /\ idx > Len(raw_data)
    /\ pc' = "processed"
    /\ UNCHANGED <<log, error, merger_state, params, files_read, loop_locals,
                   connector_state>>

NextConnector ==
    \/ ConnectorLoad
    \/ ProcessNoData
    \/ ProcessStart
    \/ ProcessStation
    \/ ProcessEnd

SpecConnector == Init /\ [][NextConnector]_vars

---------------------------------------------------------------------------
(* Properties *)

Rows == stations_gdf.rows

Output == merged_stations_gdf.rows

\* the fields of a row other than the two flags
Attributes(row) == [row EXCEPT !.is_duplicate = FALSE, !.merged_attributes = FALSE]

\* the rows _prepare_geodataframe made of data_sources, before the shuffle
InitialRows == PreparedRows(data_sources)

\* a step of the loop body
IterateStep == pc = "loop" /\ pc' = "loop" /\ idx' = idx + 1

\* the latest pass took a current station that was not marked and found
\* candidates for it, so duplicate_candidates and duplicates are its results
Resolved ==
    /\ pc \in {"loop", "done"}
    /\ current_station # NoRow
    /\ ~current_station.row.is_duplicate
    /\ DOMAIN duplicate_candidates # {}

\* 1 for BNA, 2 for OCM, 3 for OSM
SourceRank(data_source) ==
    CHOOSE i \in DOMAIN DataSourceNames : DataSourceNames[i] = data_source

\* would a current station with row a flag a station with row b
Matches(a, b) ==
    /\ HaversineDistance(b.geometry, a.geometry) < params.max_distance
    /\ AboveThreshold(
          MatchingScore(a,
                        [distance_meter |-> HaversineDistance(b.geometry, a.geometry),
                         row |-> b],
                        params.max_distance,
                        EffectiveWeights(params.score_weights)),
          params.score_threshold)

\* the working set is one BNA and one OCM station at the same coordinates
BnaOcmPair ==
    /\ pc \in {"loop", "done"}
    /\ Len(InitialRows) = 2
    /\ {InitialRows[1].data_source, InitialRows[2].data_source} = {"BNA", "OCM"}
    /\ InitialRows[1].geometry = InitialRows[2].geometry
    /\ Matches(InitialRows[1], InitialRows[2])
    /\ Matches(InitialRows[2], InitialRows[1])

BnaRecord ==
    CHOOSE r \in {InitialRows[1], InitialRows[2]} : r.data_source = "BNA"

\* C1 as stated: whichever of a BNA and an OCM station at the same
\* coordinates is processed first, the output is the unmodified BNA row with
\* merged_attributes = false and the marked row is the OCM record.
C1_Original ==
    (pc = "done" /\ BnaOcmPair) =>
        \E j \in DOMAIN Rows :
            /\ DOMAIN Output = {j}
            /\ Output[j] = BnaRecord
            /\ \A k \in DOMAIN Rows \ {j} :
                  Rows[k].data_source = "OCM" /\ Rows[k].is_duplicate

\* C1 amended: the output is one row with the field values of the BNA
\* record and is_duplicate = false. With BNA processed first it is the
\* untouched BNA row (merged_attributes = false) and the OCM row is marked;
\* with OCM processed first it is the OCM station's row overwritten by the BNA
\* record, with merged_attributes = true, and the marked row is the BNA
\* station's own row.
C1_Amended ==
    (pc = "done" /\ BnaOcmPair) =>
        /\ DOMAIN Output = {1}
        /\ Attributes(Output[1]) = BnaRecord
        /\ ~Output[1].is_duplicate
        /\ Rows[2].is_duplicate
        /\ Rows[2].data_source \in {"BNA", "OCM"}
        /\ Output[1].merged_attributes <=> (Rows[2].data_source = "BNA")

C1_Witness ==
    pc = "done" /\ BnaOcmPair /\ Output[1].merged_attributes

\* C2: after a resolve step with a non-empty flagged set the record in the
\* current station's row is of the best-ranked data source (BNA > OCM > OSM)
\* among the current station and its flagged duplicates.
C2_Claim ==
    (Resolved /\ DOMAIN duplicates # {}) =>
        LET present == {current_station.row.data_source}
                       \cup {duplicates[j].row.data_source : j \in DOMAIN duplicates}
            survivor == Rows[current_station.name].data_source
        IN  \A src \in present : SourceRank(survivor) <= SourceRank(src)

\* C3: a row that is marked is_duplicate stays marked, its own pass through
\* the loop changes nothing and calls nothing, and it is not in
\* merged_stations_gdf when the run ends.
C3_MarkedStaysOut ==
    [][pc = "loop" =>
          \A j \in DOMAIN Rows :
              Rows[j].is_duplicate =>
                  /\ stations_gdf'.rows[j].is_duplicate
                  /\ (j = idx /\ pc' = "loop") =>
                        UNCHANGED <<stations_gdf, duplicate_candidates, duplicates>>
                  /\ pc' = "done" => j \notin DOMAIN merged_stations_gdf'.rows]_vars

C3_Witness ==
    /\ pc = "done"
    /\ current_station # NoRow
    /\ current_station.row.is_duplicate
    /\ current_station.name \notin DOMAIN Output
    /\ Output # <<>>

\* C4: _get_duplicate_candidates returns no row that is marked is_duplicate
\* in the working set at the time of the call.
C4_CandidatesNotMarked ==
    [][(IterateStep /\ ~Rows[idx].is_duplicate) =>
          \A j \in DOMAIN duplicate_candidates' : ~Rows[j].is_duplicate]_vars

C4_Witness ==
    /\ Resolved
    /\ \E j \in knn3.neighbors[current_station.name] :
          /\ Rows[j].is_duplicate
          /\ j \notin DOMAIN duplicate_candidates
          /\ HaversineDistance(Rows[j].geometry, current_station.row.geometry)
                < params.max_distance

\* C5: every returned candidate is strictly closer than max_distance to the
\* current station, by the coordinates the rows hold at the time of the call.
C5_CandidatesWithinDistance ==
    [][(IterateStep /\ ~Rows[idx].is_duplicate) =>
          \A j \in DOMAIN duplicate_candidates' :
              /\ HaversineDistance(Rows[j].geometry, Rows[idx].geometry)
                    < params.max_distance
              /\ duplicate_candidates'[j].distance_meter
                    = HaversineDistance(Rows[j].geometry, Rows[idx].geometry)]_vars

\* a replaced row is a candidate while an unmarked neighbour at exactly
\* max_distance is left out
C5_Witness ==
    /\ Resolved
    /\ \E j \in DOMAIN duplicate_candidates :
          duplicate_candidates[j].row.merged_attributes
    /\ \E k \in knn3.neighbors[current_station.name] :
          /\ k \notin DOMAIN duplicate_candidates
          /\ HaversineDistance(Rows[k].geometry, current_station.row.geometry)
                = params.max_distance

\* C6: when a run ends no two surviving stations are within max_distance of
\* each other with a matching score above the threshold, so a second run on
\* the output marks and replaces nothing.
C6_Claim ==
    pc = "done" =>
        \A i, j \in DOMAIN Output :
            i # j => ~Matches(Output[i], Output[j])

\* C7 as stated: a station is only marked as the duplicate of a current
\* station of another data source.
C7_Original ==
    Resolved =>
        \A j \in DOMAIN duplicates :
            duplicates[j].row.data_source # current_station.row.data_source

\* C7 amended: a station is marked is_duplicate only in the pass of another
\* row, the current station, as one of its candidates: unmarked until then,
\* closer than max_distance and scored above score_threshold; its data source
\* may be the current station's own.
C7_Amended ==
    [][pc = "loop" =>
          \A j \in DOMAIN Rows :
              (~Rows[j].is_duplicate /\ stations_gdf'.rows[j].is_duplicate) =>
                  /\ IterateStep
                  /\ j # idx
                  /\ ~Rows[idx].is_duplicate
                  /\ j \in DOMAIN duplicate_candidates'
                  /\ j \in DOMAIN duplicates'
                  /\ Matches(Rows[idx], Rows[j])]_vars

C7_Witness ==
    /\ Resolved
    /\ \E j \in DOMAIN duplicates :
          /\ duplicates[j].row.data_source = current_station.row.data_source
          /\ Rows[j].is_duplicate

\* C8: the pass of a current station of data source BNA leaves its row as it
\* was, with merged_attributes = false and is_duplicate = false.
C8_BnaRowUnchanged ==
    [][(IterateStep /\ ~Rows[idx].is_duplicate /\ Rows[idx].data_source = "BNA") =>
          /\ stations_gdf'.rows[idx] = Rows[idx]
          /\ ~stations_gdf'.rows[idx].merged_attributes
          /\ ~stations_gdf'.rows[idx].is_duplicate]_vars

C8_Witness ==
    /\ Resolved
    /\ current_station.row.data_source = "BNA"
    /\ \E j \in DOMAIN duplicates : duplicates[j].row.data_source # "BNA"
    /\ \E j \in DOMAIN duplicates : duplicates[j].row.data_source = "BNA"

\* C9: a record without operator or without socket_type_list is in the output
\* of merge as an unmodified record of its own (read on the runs that end with
\* some station in the output).
C9_Claim ==
    (pc = "done" /\ Output # <<>>) =>
        \A i \in DOMAIN data_sources :
            (HasGeometry(data_sources[i]) /\ ~IsComplete(data_sources[i])) =>
                \E j \in DOMAIN Output : Output[j] = NewRow(data_sources[i])

\* C10: once merge has caught and logged a load error, the run does not go
\* on: it ends with an error and merged_stations_gdf stays unset.
C10_Claim ==
    log # <<>> =>
        /\ pc \in {"prepare", "raised"}
        /\ merged_stations_gdf.is_none

EmptyListError == "RuntimeError: Your provided list of stations is empty!"

\* C11: merge called with an empty stations_list raises at once, and
\* data_sources, stations_gdf, knn3 and merged_stations_gdf are what they were
\* before the call.
C11_EmptyListRaises ==
    [][(pc = "idle" /\ error' = EmptyListError) =>
          /\ pc' = "raised"
          /\ UNCHANGED merger_state]_vars

\* the call was made on a Merger that already held records
C11_Witness ==
    /\ pc = "raised"
    /\ error = EmptyListError
    /\ data_sources # <<>>

\* the station of row i of the prepared frame has no other station of the
\* frame closer than max_distance
Solitary(i) ==
    \A j \in DOMAIN InitialRows \ {i} :
        ~(HaversineDistance(InitialRows[j].geometry, InitialRows[i].geometry)
             < params.max_distance)

\* C12: a station with no other station of the working set within
\* max_distance keeps its row as it was prepared (its fields, is_duplicate =
\* false, merged_attributes = false) through the whole loop, for every order,
\* and that row is in the output when the run ends.
C12_SolitaryUnchanged ==
    pc \in {"loop", "done"} =>
        \A i \in DOMAIN InitialRows :
            Solitary(i) =>
                /\ \E k \in DOMAIN Rows : Rows[k] = InitialRows[i]
                /\ pc = "done" =>
                      \E k \in DOMAIN Output : Output[k] = InitialRows[i]

\* the run is over, the other stations were merged and the solitary one was
\* of a data source whose rows can be replaced
C12_Witness ==
    /\ pc = "done"
    /\ \E i \in DOMAIN InitialRows :
          /\ Solitary(i)
          /\ InitialRows[i].data_source # "BNA"
          /\ \E k \in DOMAIN Output : Output[k] = InitialRows[i]
    /\ \E k \in DOMAIN Rows : Rows[k].is_duplicate
    /\ \E k \in DOMAIN Output : Output[k].merged_attributes

\* the frame after the loop body has run for the row at position i
LoopBody(rows, knn, i, p) ==
    LET current == Current(rows, i)
        candidates == GetDuplicateCandidates(rows, knn, current, p.max_distance)
        dups == DetermineDuplicates(current.row, candidates, p.score_threshold,
                                    p.max_distance,
                                    EffectiveWeights(p.score_weights))
    IN  IF current.row.is_duplicate \/ DOMAIN candidates = {}
        THEN rows
        ELSE MergeDuplicates(MarkDuplicates(rows, dups), current, dups)

\* the frame after the passes i, i + 1, ... of the loop
RECURSIVE LoopFrom(_, _, _, _)
LoopFrom(rows, knn, i, p) ==
    IF i > Len(rows) THEN rows
    ELSE LoopFrom(LoopBody(rows, knn, i, p), knn, i + 1, p)

\* merged_stations_gdf of a run that processes the prepared rows in the
\* order perm
MergeResult(prepared, perm, p) ==
    LET rows == Shuffled(prepared, perm)
    IN  NotDuplicateRows(LoopFrom(rows, KNN(rows, KNN_K), 1, p))

\* the records of an output, without the flags
SurvivingRecords(out) == {Attributes(out[k]) : k \in DOMAIN out}

\* the parameters under which some working set has two processing orders
\* that leave different sets of surviving records
OrderDependentParams ==
    {p \in ParamChoices :
        \E list \in StationListChoices :
            LET prepared == PreparedRows(Stations(list))
            IN  \E o1, o2 \in Orders(Len(prepared)) :
                   SurvivingRecords(MergeResult(prepared, o1, p))
                      # SurvivingRecords(MergeResult(prepared, o2, p))}

\* C13: with the parameters of the Merger's call there is a working set and
\* there are two processing orders of it for which merge leaves different
\* sets of surviving records.
C13_OrderDependent == params \in OrderDependentParams

\* a finished run whose output is the one computed for some order, and
\* another order of the same working set gives other surviving records
C13_Witness ==
    /\ pc = "done"
    /\ \E o1, o2 \in Orders(Len(InitialRows)) :
          /\ MergeResult(InitialRows, o1, params) = Output
          /\ SurvivingRecords(MergeResult(InitialRows, o2, params))
                # SurvivingRecords(Output)

\* in this step row j is the current station and is overwritten with the
\* record of one of its flagged duplicates
ReplacedInOwnPass(j) ==
    /\ IterateStep
    /\ j = idx
    /\ ~Rows[j].is_duplicate
    /\ DOMAIN duplicate_candidates' # {}
    /\ \E k \in DOMAIN duplicates' :
          stations_gdf'.rows[j] =
             [duplicates'[k].row EXCEPT !.is_duplicate = FALSE,
                                        !.merged_attributes = TRUE]

\* C14: merged_attributes is false for every row when the loop starts, it
\* becomes true exactly in the pass in which the row, as current station, is
\* overwritten with the record of one of its flagged duplicates, it is never
\* set back, and every row of the output has is_duplicate = false and is the
\* row of the working set.
C14_MergedAttributes ==
    [][pc = "loop" =>
          /\ idx = 1 => \A j \in DOMAIN Rows : ~Rows[j].merged_attributes
          /\ \A j \in DOMAIN Rows :
                /\ Rows[j].merged_attributes => stations_gdf'.rows[j].merged_attributes
                /\ (~Rows[j].merged_attributes /\ stations_gdf'.rows[j].merged_attributes)
                      => ReplacedInOwnPass(j)
                /\ (j = idx /\ stations_gdf'.rows[j] # Rows[j])
                      => (ReplacedInOwnPass(j) /\ stations_gdf'.rows[j].merged_attributes)
          /\ pc' = "done" =>
                \A k \in DOMAIN merged_stations_gdf'.rows :
                    /\ ~merged_stations_gdf'.rows[k].is_duplicate
                    /\ merged_stations_gdf'.rows[k] = Rows[k]]_vars

\* an output with a replaced row and a row that was never replaced
C14_Witness ==
    /\ pc = "done"
    /\ \E k \in DOMAIN Output : Output[k].merged_attributes
    /\ \E k \in DOMAIN Output : ~Output[k].merged_attributes
    /\ \E k \in DOMAIN Rows : Rows[k].is_duplicate

\* C15: when merge has returned, merged_stations_gdf holds exactly the rows of
\* the working set whose is_duplicate flag is false after the loop: each of
\* them, as it is in the working set, and no marked row.
C15_OutputIsNotDuplicates ==
    pc = "done" =>
        /\ ~merged_stations_gdf.is_none
        /\ idx > Len(Rows)
        /\ DOMAIN Output = {j \in DOMAIN Rows : ~Rows[j].is_duplicate}
        /\ \A j \in DOMAIN Output : Output[j] = Rows[j]

\* a finished run with marked rows, a replaced row and an untouched row
C15_Witness ==
    /\ pc = "done"
    /\ \E j \in DOMAIN Rows : Rows[j].is_duplicate /\ j \notin DOMAIN Output
    /\ \E j \in DOMAIN Output : Output[j].merged_attributes
    /\ \E j \in DOMAIN Output : ~Output[j].merged_attributes

\* the matching_score of row j of the candidate frame of the latest call of
\* the scorer
ScoreOf(j) ==
    MatchingScore(current_station.row, duplicate_candidates[j], params.max_distance,
                  EffectiveWeights(params.score_weights))

\* C16: _determine_duplicates returns exactly the candidates whose
\* matching_score is strictly greater than score_threshold, each with its
\* fields and is_duplicate = true; a candidate whose score equals the
\* threshold is not returned.
C16_StrictThreshold ==
    pc = "determined" =>
        /\ \A j \in DOMAIN duplicate_candidates :
              /\ j \in DOMAIN duplicates
                    <=> ScoreOf(j).num > params.score_threshold * ScoreOf(j).den
              /\ ScoreOf(j).num = params.score_threshold * ScoreOf(j).den
                    => j \notin DOMAIN duplicates
        /\ \A j \in DOMAIN duplicates :
              /\ j \in DOMAIN duplicate_candidates
              /\ duplicates[j].row.is_duplicate
              /\ duplicates[j].distance_meter = duplicate_candidates[j].distance_meter
              /\ Attributes(duplicates[j].row) = Attributes(duplicate_candidates[j].row)

\* a frame with one candidate scored exactly at the threshold and one above
C16_Witness ==
    /\ pc = "determined"
    /\ \E j \in DOMAIN duplicate_candidates :
          /\ ScoreOf(j).num = params.score_threshold * ScoreOf(j).den
          /\ j \notin DOMAIN duplicates
    /\ DOMAIN duplicates # {}
    /\ params.score_weights = NoneObject

\* C17: in the frame _prepare_geodataframe returns no two rows have the same
\* id, also when data_sources holds a record several times; every id of a
\* record that passes the filters is there once.
C17_UniqueIds ==
    (pc = "loop" /\ idx = 1) =>
        /\ \A i, j \in DOMAIN Rows : Rows[i].id = Rows[j].id => i = j
        /\ \A k \in DOMAIN data_sources :
              (HasGeometry(data_sources[k]) /\ IsComplete(data_sources[k])) =>
                  \E i \in DOMAIN Rows : Rows[i].id = data_sources[k].id

\* data_sources holds one record twice and another record
C17_Witness ==
    /\ pc = "loop"
    /\ idx = 1
    /\ \E k, l \in DOMAIN data_sources : k # l /\ data_sources[k] = data_sources[l]
    /\ Len(Rows) >= 2
    /\ Len(Rows) < Len(data_sources)

RECURSIVE Gcd(_, _)
Gcd(a, b) == IF b = 0 THEN a ELSE Gcd(b, a % b)

\* a fraction with a positive denominator in lowest terms
Reduced(s) ==
    LET g == Gcd(Abs(s.num), s.den)
    IN  [num |-> s.num \div g, den |-> s.den \div g]

\* s <= t for two fractions with positive denominators
ScoreLeq(s, t) == Reduced(s).num * Reduced(t).den <= Reduced(t).num * Reduced(s).den

\* rows i and j of the candidate frame have the same operator_match and the
\* same address_match
SameSimilarity(i, j) ==
    LET om(k) == OperatorMatch(current_station.row.operator,
                               duplicate_candidates[k].row.operator)
        am(k) == AddressMatch(AddressOf(current_station.row),
                              AddressOf(duplicate_candidates[k].row))
    IN  /\ ScoreLeq(om(i), om(j)) /\ ScoreLeq(om(j), om(i))
        /\ ScoreLeq(am(i), am(j)) /\ ScoreLeq(am(j), am(i))

\* C18 as stated: for any score weights, of two candidates with the same
\* operator and address similarity the one at the greater distance never has
\* the greater matching_score.
C18_Original ==
    pc = "determined" =>
        \A i, j \in DOMAIN duplicate_candidates :
            (SameSimilarity(i, j)
             /\ duplicate_candidates[i].distance_meter
                   <= duplicate_candidates[j].distance_meter)
                => ScoreLeq(ScoreOf(j), ScoreOf(i))

\* C18 amended: with a distance weight that is not negative (the default
\* included) the candidate at the greater distance never has the greater
\* matching_score; with a negative distance weight, which merge accepts, the
\* candidate at the strictly greater distance has the strictly greater score.
C18_Amended ==
    pc = "determined" =>
        \A i, j \in DOMAIN duplicate_candidates :
            (SameSimilarity(i, j)
             /\ duplicate_candidates[i].distance_meter
                   <= duplicate_candidates[j].distance_meter)
                => IF EffectiveWeights(params.score_weights).distance >= 0
                   THEN ScoreLeq(ScoreOf(j), ScoreOf(i))
                   ELSE /\ ScoreLeq(ScoreOf(i), ScoreOf(j))
                        /\ duplicate_candidates[i].distance_meter
                              < duplicate_candidates[j].distance_meter
                              => ~ScoreLeq(ScoreOf(j), ScoreOf(i))

\* the default weights, two candidates alike but for the distance, and the
\* nearer one has the strictly greater score
C18_Witness ==
    /\ pc = "determined"
    /\ params.score_weights = NoneObject
    /\ \E i, j \in DOMAIN duplicate_candidates :
          /\ duplicate_candidates[i].row = duplicate_candidates[j].row
          /\ duplicate_candidates[i].distance_meter
                < duplicate_candidates[j].distance_meter
          /\ ~ScoreLeq(ScoreOf(i), ScoreOf(j))

\* street, postcode and town of a row are all None
NoAddress(row) == row.street = None /\ row.postcode = None /\ row.town = None

\* C19: after _determine_duplicates, operator_match of a candidate is 1.0
\* when its operator and the current station's are the same string and 0.0
\* when either is None; address_match is 1.0 when the two address strings are
\* the same and neither is the all-None placeholder, and 0.0 when either is
\* the placeholder.
C19_MatchValues ==
    pc = "determined" =>
        \A j \in DOMAIN duplicate_candidates :
            LET c == duplicate_candidates[j]
                cur == current_station.row
            IN  /\ (cur.operator # None /\ c.row.operator = cur.operator)
                      => c.operator_match.num = c.operator_match.den
                /\ (cur.operator = None \/ c.row.operator = None)
                      => c.operator_match.num = 0
                /\ (~NoAddress(cur) /\ ~NoAddress(c.row)
                    /\ <<c.row.street, c.row.postcode, c.row.town>>
                          = <<cur.street, cur.postcode, cur.town>>)
                      => c.address_match.num = c.address_match.den
                /\ (NoAddress(cur) \/ NoAddress(c.row))
                      => c.address_match.num = 0
                /\ c.operator_match.den > 0
                /\ c.address_match.den > 0

\* one candidate equal to the current station in operator and address, one
\* without operator and without address
C19_Witness ==
    /\ pc = "determined"
    /\ current_station.row.operator # None
    /\ ~NoAddress(current_station.row)
    /\ \E i, j \in DOMAIN duplicate_candidates :
          /\ duplicate_candidates[i].operator_match.num
                = duplicate_candidates[i].operator_match.den
          /\ duplicate_candidates[i].address_match.num
                = duplicate_candidates[i].address_match.den
          /\ duplicate_candidates[j].row.operator = None
          /\ NoAddress(duplicate_candidates[j].row)
          /\ duplicate_candidates[j].operator_match.num = 0
          /\ duplicate_candidates[j].address_match.num = 0

BestSource(dups) ==
    LET ranks == {SourceRank(dups[j].row.data_source) : j \in DOMAIN dups}
    IN  DataSourceNames[Min(ranks)]

\* C23: when the current station is not BNA and its flagged duplicates are
\* not empty, the record copied into its row is that of a BNA duplicate if
\* there is one, otherwise of an OCM duplicate if there is one, otherwise of
\* an OSM duplicate.
C23_SourcePriority ==
    [][(/\ IterateStep
        /\ ~Rows[idx].is_duplicate
        /\ Rows[idx].data_source # "BNA"
        /\ DOMAIN duplicate_candidates' # {}
        /\ DOMAIN duplicates' # {}) =>
          \E j \in DOMAIN duplicates' :
              /\ duplicates'[j].row.data_source = BestSource(duplicates')
              /\ Attributes(stations_gdf'.rows[idx]) = Attributes(Rows[j])
              /\ stations_gdf'.rows[idx] # Rows[idx]]_vars

\* an OCM or OSM station took the record of a BNA duplicate although a
\* duplicate of another source stands before it in the frame
C23_Witness ==
    /\ Resolved
    /\ current_station.row.data_source # "BNA"
    /\ \E j, k \in DOMAIN duplicates :
          /\ j < k
          /\ duplicates[j].row.data_source # "BNA"
          /\ duplicates[k].row.data_source = "BNA"
          /\ Attributes(Rows[current_station.name]) = Attributes(duplicates[k].row)

\* the flagged duplicates of the row at position i: its unmarked neighbours
\* closer than max_distance whose score is above the threshold; none if the
\* row is marked itself
Flagged(i) ==
    IF Rows[i].is_duplicate THEN {}
    ELSE {j \in knn3.neighbors[i] :
             ~Rows[j].is_duplicate /\ Matches(Rows[i], Rows[j])}

\* C24: one pass of the loop for a current station c changes the working set
\* only so: exactly the flagged duplicates of c get is_duplicate = true, the
\* row of c stays or is overwritten by one whole flagged record with
\* is_duplicate = false and merged_attributes = true, every other row is
\* unchanged and no row is added or removed; without a candidate or without a
\* flagged duplicate the working set is unchanged.
C24_FrameEffect ==
    [][IterateStep =>
          LET after == stations_gdf'.rows
              flagged == Flagged(idx)
          IN  /\ DOMAIN after = DOMAIN Rows
              /\ idx \notin flagged
              /\ \A j \in DOMAIN Rows \ {idx} :
                    after[j] = IF j \in flagged
                               THEN [Rows[j] EXCEPT !.is_duplicate = TRUE]
                               ELSE Rows[j]
              /\ \/ after[idx] = Rows[idx]
                 \/ \E j \in flagged :
                       after[idx] = [Rows[j] EXCEPT !.is_duplicate = FALSE,
                                                    !.merged_attributes = TRUE]
              /\ (flagged = {} \/ DOMAIN duplicate_candidates' = {}) =>
                    stations_gdf' = stations_gdf]_vars

\* a pass that marked a duplicate, overwrote the current row with its record
\* and left a third, unmarked row as it was
C24_Witness ==
    /\ Resolved
    /\ Rows[current_station.name] # current_station.row
    /\ Rows[current_station.name].merged_attributes
    /\ \E j \in DOMAIN duplicates : Rows[j].is_duplicate
    /\ \E k \in DOMAIN Rows :
          /\ k # current_station.name
          /\ k \notin DOMAIN duplicates
          /\ ~Rows[k].is_duplicate

\* C26: at every point of a merge run the rows of the working set with
\* is_duplicate = false have pairwise distinct ids, although a replacement
\* copies the id of a duplicate into the row of the current station; so the
\* output never holds an id twice.
C26_UnmarkedIdsDistinct ==
    /\ pc \in {"loop", "done"} =>
          \A i, j \in DOMAIN Rows :
              (~Rows[i].is_duplicate /\ ~Rows[j].is_duplicate
                  /\ Rows[i].id = Rows[j].id) => i = j
    /\ pc = "done" =>
          \A i, j \in DOMAIN Output : Output[i].id = Output[j].id => i = j

\* the run ended with two rows in the output, one of them a copy of a
\* duplicate whose own row, with the same id, is marked
C26_Witness ==
    /\ pc = "done"
    /\ Cardinality(DOMAIN Output) >= 2
    /\ \E i \in DOMAIN Output : \E j \in DOMAIN Rows :
          /\ i # j
          /\ Output[i].merged_attributes
          /\ Rows[j].id = Output[i].id
          /\ Rows[j].is_duplicate

\* C27: the current station is never among its own flagged duplicates, so
\* after its pass its row has is_duplicate = false; and whenever the prepared
\* working set is not empty the output of merge holds at least one station.
C27_CurrentKeptAndOutputNotEmpty ==
    /\ Resolved =>
          /\ current_station.name \notin DOMAIN duplicate_candidates
          /\ current_station.name \notin DOMAIN duplicates
    /\ (pc \in {"loop", "done"} /\ current_station # NoRow
            /\ ~current_station.row.is_duplicate
            /\ idx = current_station.name + 1) =>
          ~Rows[current_station.name].is_duplicate
    /\ (pc = "done" /\ Len(Rows) >= 1) => DOMAIN Output # {}

\* the run ended, its latest pass replaced the row of the current station by
\* the record of a duplicate, and that row is in the output
C27_Witness ==
    /\ pc = "done"
    /\ Resolved
    /\ DOMAIN duplicates # {}
    /\ Rows[current_station.name].merged_attributes
    /\ current_station.name \in DOMAIN Output

\* C28: in every state of a merge run the attribute values of every row of
\* the working set (all fields but is_duplicate and merged_attributes) are
\* those of one single record of the prepared input: merge copies whole
\* records, it neither mixes the fields of two records nor makes up values.
C28_WholeRecords ==
    pc \in {"loop", "done"} =>
        LET prepared == InitialRows
            records == {Attributes(prepared[k]) : k \in DOMAIN prepared}
        IN  \A j \in DOMAIN Rows : Attributes(Rows[j]) \in records

\* a row was overwritten by a record of another data source that differs
\* from its own in the operator or in the coordinates
C28_Witness ==
    /\ Resolved
    /\ DOMAIN duplicates # {}
    /\ LET before == current_station.row
           after == Rows[current_station.name]
       IN  /\ after.merged_attributes
           /\ after.data_source # before.data_source
           /\ after.id # before.id
           /\ after.operator # before.operator \/ after.geometry # before.geometry

\* C29: the loop ends after one visit per row of the prepared working set:
\* the rows are taken as current one after the other, each once; a row that is
\* marked is_duplicate when its turn comes is passed over without any effect;
\* the run ends when every row was visited, and not before.
C29_OneVisitPerRow ==
    /\ (pc = "loop") ~> (pc = "done")
    /\ [][pc = "loop" =>
             /\ idx \in 1..(Len(Rows) + 1)
             /\ IterateStep =>
                   /\ idx <= Len(Rows)
                   /\ current_station' = Current(Rows, idx)
                   /\ Len(stations_gdf'.rows) = Len(Rows)
                   /\ Rows[idx].is_duplicate =>
                         UNCHANGED <<stations_gdf, duplicate_candidates, duplicates,
                                     merged_stations_gdf>>
             /\ pc' = "done" => (idx = Len(Rows) + 1 /\ UNCHANGED <<idx, stations_gdf>>)
             /\ pc' \in {"loop", "done"}
             /\ idx' \in {idx, idx + 1}]_vars

\* the run ended after three visits, the last of a row that was marked by
\* then
C29_Witness ==
    /\ pc = "done"
    /\ Len(Rows) = 3
    /\ idx = 4
    /\ current_station.name = 3
    /\ current_station.row.is_duplicate

C21_Claim ==
    \A k \in DOMAIN processed_data :
        processed_data[k].charging.dc_support
            <=> AnyDC(processed_data[k].charging.socket_type_list)

\* C22: in every station record process has produced, of the BNA, the OCM and
\* the OSM connector, address.postcode is None or a string of exactly five
\* digits, whatever the raw postcode value was.
C22_PostcodeFiveDigitsOrNone ==
    \A k \in DOMAIN processed_data :
        LET postcode == processed_data[k].address.postcode
        IN  \/ postcode = None
            \/ Len(postcode) = 5 /\ \A i \in DOMAIN postcode : IsDigit(postcode[i])

\* a raw postcode of six characters, one of them no digit, gave a postcode of
\* five digits
C22_Witness ==
    /\ pc = "processed"
    /\ \E k \in DOMAIN processed_data :
          /\ processed_data[k].address.postcode # None
          /\ Len(processed_data[k].raw_data.postcode) = 6
          /\ Len(processed_data[k].address.postcode) = 5

\* C25: in process of each connector a raw record whose conversion fails is
\* skipped and processing goes on with the remaining records: one malformed
\* record never makes process raise, and after process processed_data holds
\* exactly the records that converted, in input order.
C25_Claim ==
    /\ (connector # NoneObject /\ pc = "raised") => raw_data = <<>>
    /\ (connector # NoneObject /\ pc = "processed") =>
          LET data_source == connector.data_source
              Converts(station_raw) == ~Skipped(data_source, station_raw)
              converted == SelectSeq(raw_data, Converts)
          IN  processed_data =
                 [k \in DOMAIN converted |->
                     ProcessedStation(data_source, converted[k])]

===========================================================================
